---- MODULE Spec2Model ----
(***************************************************************************)
(* Model of bin/ai_agent.py: a watchdog handler that, for each created     *)
(* .md file, writes an enriched temporary copy, probes the remote host,    *)
(* uploads the copy over SFTP, runs the remote build script and files the  *)
(* original into the processed or the failed directory.                    *)
(*                                                                         *)
(* The handler runs on the single observer thread, so its steps are the    *)
(* values of pc; the producer that drops files into the watch directory    *)
(* runs concurrently.  Every I/O call may succeed or raise; the choice is  *)
(* made by \E in the action that models the call.                          *)
(***************************************************************************)
EXTENDS Integers, Sequences, FiniteSets, TLC

(* Bound: number of created events the producer emits. *)
MaxEvents == 2

---------------------------------------------------------------------------
(* File names are sequences of characters so that endswith, splitext and   *)
(* the hidden temporary name are computed, not assumed.                    *)

MdName == <<"a", "_", "b", ".", "m", "d">>
UpperName == <<"a", ".", "M", "D">>
Names == {MdName, UpperName}

Suffix(s, n) == SubSeq(s, Len(s) - n + 1, Len(s))

(* Variant: the suffix is compared without regard to case *)
EndsWithIgnoreCase(s, suf) ==
  /\ Len(s) >= Len(suf)
  /\ \A i \in 1..Len(suf) :
       LET c == s[Len(s) - Len(suf) + i]
       IN  c = suf[i] \/ (c = "M" /\ suf[i] = "m") \/ (c = "D" /\ suf[i] = "d")

(* str.endswith *)
EndsWith(s, suf) == Len(s) >= Len(suf) /\ Suffix(s, Len(suf)) = suf

MdSuffix == <<".", "m", "d">>

(* tempfile.NamedTemporaryFile(suffix='.md'): a fresh name per call *)
ArtName(k) == <<"t", "m", "p", ToString(k)>> \o MdSuffix

ArtNames == {ArtName(k) : k \in 1..MaxEvents}

(* f".{os.path.basename(src)}.tmp" *)
TempDestName(base) == <<".">> \o base \o <<".", "t", "m", "p">>

BaseNames == Names \cup ArtNames
AllNames == BaseNames \cup {TempDestName(n) : n \in BaseNames}

WatchDir == "watch"
ProcessedDir == "processed"
FailedDir == "failed"
TempDir == "tmp"
Dirs == {WatchDir, ProcessedDir, FailedDir, TempDir}

(* datetime.now().strftime("%d%b%Y").upper() *)
Dates == {"05OCT2025"}

Upper(c) == CASE c = "a" -> "A" [] c = "b" -> "B" [] c = "m" -> "M"
              [] c = "d" -> "D" [] OTHER -> c
Lower(c) == CASE c = "A" -> "a" [] c = "B" -> "b" [] c = "M" -> "m"
              [] c = "D" -> "d" [] OTHER -> c
IsLetter(c) == c \in {"a", "b", "m", "d", "A", "B", "M", "D"}

(* os.path.splitext(file_name)[0]: cut at the last dot that is not leading *)
Stem(s) ==
  LET dots == {i \in 2..Len(s) : s[i] = "."}
  IN  IF dots = {} THEN s
      ELSE SubSeq(s, 1, (CHOOSE i \in dots : \A j \in dots : j <= i) - 1)

(* .replace('_', ' ').title() *)
TitleOf(file_name) ==
  LET st == Stem(file_name)
      sp == [i \in 1..Len(st) |-> IF st[i] = "_" THEN " " ELSE st[i]]
  IN  [i \in 1..Len(sp) |->
         IF IsLetter(sp[i])
         THEN IF i = 1 \/ ~IsLetter(sp[i - 1]) THEN Upper(sp[i]) ELSE Lower(sp[i])
         ELSE sp[i]]

FrontMatter(file_name, date) ==
  [title |-> TitleOf(file_name), author |-> "Alex", date |-> date]

---------------------------------------------------------------------------
(* Filesystem entries.  art marks a file made by tempfile, id tells the    *)
(* producer's files and the artifacts apart individually.                  *)

Absent == [kind |-> "none", art |-> FALSE, id |-> 0, fm |-> <<>>, body |-> 0]

ProducerFile(i) ==
  [kind |-> "file", art |-> FALSE, id |-> i, fm |-> <<>>, body |-> i]

ProducerDir(i) ==
  [kind |-> "dir", art |-> FALSE, id |-> i, fm |-> <<>>, body |-> 0]

Decoders == <<"Ed25519", "ECDSA", "RSA">>
DecoderOutcomes == {"key", "SSHException", "OSError"}

VARIABLES
  cfg,        \* SSH_PRIVATE_KEY_PATH, REMOTE_PASSWORD and the key file
  fs,         \* local directories: fs[dir][name]
  remote,     \* files in REMOTE_UPLOAD_DIRECTORY
  queue,      \* created events not yet dispatched
  emitted,    \* number of created events so far
  observer,   \* "running" or "dead": the thread that calls on_created
  pc,         \* position of the handler
  runs,       \* number of runs started
  run,        \* locals and history of the current run
  sessions,   \* SSH transports that are open
  sftps       \* SFTP channels that are open

vars == <<cfg, fs, remote, queue, emitted, observer, pc, runs, run, sessions, sftps>>

Unbound == <<"unbound">>

NoRun ==
  [file_name |-> <<>>, fid |-> 0, date |-> "", original |-> Absent,
   temp_path |-> Unbound, client |-> "", sftp |-> FALSE, ret |-> FALSE,
   exc |-> "none", dest |-> "", inTry |-> FALSE,
   enrich |-> "none", probe |-> "none", preflight |-> "none",
   upload |-> "none", exec |-> "none",
   exit |-> -1, stderr |-> FALSE, sshCalls |-> 0, connects |-> 0,
   puts |-> 0, execs |-> 0,
   keyTried |-> <<>>, key |-> "", offered |-> <<>>, sshError |-> "none",
   filings |-> <<>>, filingFailed |-> FALSE, caught |-> 0,
   escaped |-> "none", stages |-> <<>>]

EmptyDir == [n \in AllNames |-> Absent]

Configs ==
  {c \in [keyPath : BOOLEAN, password : BOOLEAN, keyExists : BOOLEAN,
          keyFile : [1..3 -> DecoderOutcomes]] :
     (~c.keyPath \/ ~c.keyExists) => (~c.keyExists /\ \A i \in 1..3 : c.keyFile[i] = "SSHException")}

Init ==
  /\ cfg \in Configs
  /\ fs = [d \in Dirs |-> EmptyDir]
  /\ remote = {}
  /\ queue = <<>>
  /\ emitted = 0
  /\ observer = "running"
  /\ pc = "idle"
  /\ runs = 0
  /\ run = NoRun
  /\ sessions = {}
  /\ sftps = {}

---------------------------------------------------------------------------
(* The producer: a file or a directory appears in the watch directory and  *)
(* the observer queues a created event for it.  A name is free when        *)
(* nothing in the watch directory has it and no run is working on it: the  *)
(* producer does not reuse the name of the file being processed.           *)

NameFree(n) ==
  /\ fs[WatchDir][n] = Absent
  /\ ~(pc # "idle" /\ run.file_name = n)

Produce ==
  /\ emitted < MaxEvents
  /\ \E n \in Names, isDir \in BOOLEAN :
       /\ NameFree(n)
       /\ fs' = [fs EXCEPT ![WatchDir][n] =
                   IF isDir THEN ProducerDir(emitted + 1) ELSE ProducerFile(emitted + 1)]
       /\ queue' = Append(queue, [src_path |-> n, is_directory |-> isDir])
  /\ emitted' = emitted + 1
  /\ UNCHANGED <<cfg, remote, observer, pc, runs, run, sessions, sftps>>

---------------------------------------------------------------------------
(* load_private_key: the decoders are tried in the order of key_loaders;   *)
(* only paramiko.SSHException moves on to the next decoder.                *)

(* Variant: gives up after the first decoder instead of looping *)
TryLoadersFirstOnly(keyFile, i, tried) ==
  IF keyFile[i] = "key"
  THEN [result |-> "key", key |-> Decoders[i], tried |-> Append(tried, Decoders[i])]
  ELSE [result |-> "UnloadableKey", key |-> "", tried |-> Append(tried, Decoders[i])]

RECURSIVE TryLoaders(_, _, _)
TryLoaders(keyFile, i, tried) ==
  IF i > Len(Decoders)
  THEN [result |-> "UnloadableKey", key |-> "", tried |-> tried]
  ELSE LET t == Append(tried, Decoders[i])
       IN  CASE keyFile[i] = "key" -> [result |-> "key", key |-> Decoders[i], tried |-> t]
             [] keyFile[i] = "SSHException" -> TryLoaders(keyFile, i + 1, t)
             [] OTHER -> [result |-> keyFile[i], key |-> "", tried |-> t]

LoadPrivateKey(c) ==
  IF ~c.keyExists
  THEN [result |-> "FileNotFoundError", key |-> "", tried |-> <<>>]
  ELSE TryLoaders(c.keyFile, 1, <<>>)

(* Variant: no check that a password is configured *)
CredentialUnchecked(c) == IF c.keyPath THEN "pkey" ELSE "password"

(* Variant: the password is preferred when both are configured *)
CredentialPasswordFirst(c) ==
  IF c.password THEN "password" ELSE IF c.keyPath THEN "pkey" ELSE "none"

(* The credential get_ssh_client resolves: the key path wins over the      *)
(* password.                                                               *)
Credential(c) ==
  IF c.keyPath THEN "pkey" ELSE IF c.password THEN "password" ELSE "none"

(* client.connect either returns or raises *)
ConnectOutcomes == {"ok", "fail"}

SessionId(op) == [run |-> runs, op |-> op]

(* get_ssh_client as called by op ("upload" or "exec") with locals r: sets *)
(* run'.client to op when a connected client is returned, and              *)
(* run'.sshError to the exception it re-raised otherwise.                  *)
GetSshClient(r, op) ==
  LET lk == LoadPrivateKey(cfg)
      r0 == [r EXCEPT !.sshCalls = @ + 1, !.sshError = "none", !.ret = FALSE,
                      !.keyTried = IF cfg.keyPath THEN lk.tried ELSE @,
                      !.key = IF cfg.keyPath THEN lk.key ELSE @]
  IN  CASE Credential(cfg) = "none" ->
             /\ run' = [r0 EXCEPT !.sshError = "ValueError", !.ret = FALSE]
             /\ UNCHANGED sessions
        [] Credential(cfg) = "pkey" /\ lk.result # "key" ->
             /\ run' = [r0 EXCEPT !.sshError = lk.result, !.ret = FALSE]
             /\ UNCHANGED sessions
        [] OTHER ->
             \E out \in ConnectOutcomes :
               LET r1 == [r0 EXCEPT !.connects = @ + 1,
                                    !.offered = Append(@, Credential(cfg))]
               IN  CASE out = "ok" ->
                          /\ run' = [r1 EXCEPT !.client = op]
                          /\ sessions' = sessions \cup {SessionId(op)}
                     [] OTHER ->
                          /\ run' = [r1 EXCEPT !.sshError = "SSHException", !.ret = FALSE]
                          /\ UNCHANGED sessions

---------------------------------------------------------------------------
(* on_created, lines 132-140: the filter and the settle delay.             *)

(* Variant: events are dispatched while on_created is still running *)
HandlerAlwaysFree == TRUE

(* on_created is synchronous (sleep, blocking I/O, no thread is started):  *)
(* the observer thread takes the next event only after it has returned.    *)
HandlerFree == pc = "idle"

OnCreated ==
  /\ observer = "running"
  /\ HandlerFree
  /\ queue # <<>>
  /\ LET event == Head(queue)
         file_name == event.src_path
     IN  /\ queue' = Tail(queue)
         /\ IF event.is_directory \/ ~EndsWith(file_name, MdSuffix)
            THEN UNCHANGED <<pc, runs, run>>
            ELSE /\ pc' = "enrich"
                 /\ runs' = runs + 1
                 /\ run' = [NoRun EXCEPT !.file_name = file_name,
                                         !.fid = fs[WatchDir][file_name].id,
                                         !.stages = <<"Detected">>]
  /\ UNCHANGED <<cfg, fs, remote, emitted, observer, sessions, sftps>>

(* Variant: the copy is written without the front matter *)
EnrichedBare(original, file_name, date, k) ==
  [kind |-> "file", art |-> TRUE, id |-> k, fm |-> original.fm, body |-> original.body]

(* front_matter + original, written to the temporary file *)
Enriched(original, file_name, date, k) ==
  [kind |-> "file", art |-> TRUE, id |-> k,
   fm |-> <<FrontMatter(file_name, date)>> \o original.fm, body |-> original.body]

(* the temporary file as NamedTemporaryFile creates it: empty *)
EmptyArtifact(k) ==
  [kind |-> "file", art |-> TRUE, id |-> k, fm |-> <<>>, body |-> 0]

(* Variant: the enriched text is written over the original *)
WriteInPlace(files, file_name, temp_name, data) ==
  [files EXCEPT ![WatchDir][file_name] =
     [data EXCEPT !.art = FALSE, !.id = files[WatchDir][file_name].id]]

(* lines 147-149: the enriched text goes to the temporary file only *)
WriteArtifact(files, file_name, temp_name, data) ==
  [files EXCEPT ![TempDir][temp_name] = data]

EnrichOutcomes(src) ==
  IF src.kind = "file" THEN {"ok", "readfail", "createfail", "writefail"}
  ELSE {"readfail"}

(* lines 142-150: read the original, create the temporary file, write it.  *)
(* temp_path is assigned only after the write.                             *)
Enrich ==
  /\ pc = "enrich"
  /\ \E date \in Dates, out \in EnrichOutcomes(fs[WatchDir][run.file_name]) :
       LET src == fs[WatchDir][run.file_name]
           r0 == [run EXCEPT !.date = date, !.enrich = out,
                             !.stages = Append(@, "Enriching")]
       IN  CASE out = "ok" ->
                  /\ fs' = WriteArtifact(fs, run.file_name, ArtName(runs),
                                         Enriched(src, run.file_name, date, runs))
                  /\ run' = [r0 EXCEPT !.original = src, !.temp_path = ArtName(runs)]
                  /\ pc' = "preflight"
             [] out = "writefail" ->
                  /\ fs' = [fs EXCEPT ![TempDir][ArtName(runs)] = EmptyArtifact(runs)]
                  /\ run' = [r0 EXCEPT !.original = src, !.exc = "OSError"]
                  /\ pc' = "except"
             [] out = "createfail" ->
                  /\ run' = [r0 EXCEPT !.original = src, !.exc = "OSError"]
                  /\ pc' = "except"
                  /\ UNCHANGED fs
             [] OTHER ->
                  /\ run' = [r0 EXCEPT !.exc = "OSError"]
                  /\ pc' = "except"
                  /\ UNCHANGED fs
  /\ UNCHANGED <<cfg, remote, queue, emitted, observer, runs, sessions, sftps>>

(* Variant: the probe's result is not looked at *)
ProbeIgnored(reachable) == TRUE

(* line 151: the run goes on only when preflight_check returned True *)
ProbePasses(reachable) == reachable

(* socket.create_connection either returns a connected socket or raises *)
ProbeOutcomes == {"connected", "OSError"}

(* Variant: the socket is not closed when True is returned *)
ProbeLeftOpen(sock) == sock

(* leaving the with statement of line 49 closes the socket *)
ProbeAfterWith(sock) == "closed"

(* preflight_check, line 49: the probe connection is attempted.  When it   *)
(* raises, lines 52-54 turn the exception into False and line 152 raises.  *)
Preflight ==
  /\ pc = "preflight"
  /\ \E out \in ProbeOutcomes :
       LET r0 == [run EXCEPT !.stages = Append(@, "Preflighting")]
       IN  IF out = "connected"
           THEN /\ run' = [r0 EXCEPT !.probe = "open"]
                /\ pc' = "preflight_return"
           ELSE LET r1 == [r0 EXCEPT !.probe = out, !.preflight = "fail"]
                IN  IF ProbePasses(FALSE)
                    THEN /\ run' = r1
                         /\ pc' = "upload_connect"
                    ELSE /\ run' = [r1 EXCEPT !.exc = "Exception"]
                         /\ pc' = "except"
  /\ UNCHANGED <<cfg, fs, remote, queue, emitted, observer, runs, sessions, sftps>>

(* preflight_check, lines 49-51: return True leaves the with statement;    *)
(* line 151 then lets the run go on.                                       *)
PreflightReturn ==
  /\ pc = "preflight_return"
  /\ LET r0 == [run EXCEPT !.probe = ProbeAfterWith(@), !.preflight = "ok"]
     IN  IF ProbePasses(TRUE)
         THEN /\ run' = r0
              /\ pc' = "upload_connect"
         ELSE /\ run' = [r0 EXCEPT !.exc = "Exception"]
              /\ pc' = "except"
  /\ UNCHANGED <<cfg, fs, remote, queue, emitted, observer, runs, sessions, sftps>>

---------------------------------------------------------------------------
(* upload_file_via_scp, lines 96-109, and its call at lines 153-154.       *)

UploadConnect ==
  /\ pc = "upload_connect"
  /\ GetSshClient([run EXCEPT !.stages = Append(@, "Uploading")], "upload")
  /\ pc' = IF run'.client = "upload" THEN "upload_put" ELSE "upload_finally"
  /\ UNCHANGED <<cfg, fs, remote, queue, emitted, observer, runs, sftps>>

RemotePath(date, file_name) == <<date, file_name>>

(* sftp.put: a direct write to the remote path, replacing what is there *)
Put(files, path, data) ==
  {f \in files : f.path # path} \cup {[path |-> path, data |-> data]}

(* what an interrupted put leaves at the remote path *)
PartialData(k) == [kind |-> "file", art |-> TRUE, id |-> k, fm |-> <<>>, body |-> 0]

UploadPut ==
  /\ pc = "upload_put"
  /\ \E out \in {"ok", "sftp_fail", "put_fail", "put_partial"} :
       LET path == RemotePath(run.date, run.file_name)
           local == fs[TempDir][run.temp_path]
       IN  CASE out = "sftp_fail" ->
                  /\ run' = [run EXCEPT !.ret = FALSE]
                  /\ UNCHANGED <<sftps, remote>>
             [] out = "put_fail" ->
                  /\ run' = [run EXCEPT !.sftp = TRUE, !.puts = @ + 1, !.ret = FALSE]
                  /\ sftps' = sftps \cup {SessionId("upload")}
                  /\ UNCHANGED remote
             [] out = "put_partial" ->
                  /\ run' = [run EXCEPT !.sftp = TRUE, !.puts = @ + 1, !.ret = FALSE]
                  /\ sftps' = sftps \cup {SessionId("upload")}
                  /\ remote' = Put(remote, path, PartialData(runs))
             [] OTHER ->
                  /\ run' = [run EXCEPT !.sftp = TRUE, !.puts = @ + 1, !.ret = TRUE]
                  /\ sftps' = sftps \cup {SessionId("upload")}
                  /\ remote' = Put(remote, path, local)
  /\ pc' = "upload_finally"
  /\ UNCHANGED <<cfg, fs, queue, emitted, observer, runs, sessions>>

(* Variant: the client is not closed *)
CloseClientNoop(open, sid) == open

(* client.close(), lines 109 and 128 *)
CloseClient(open, sid) == open \ {sid}

(* finally: if sftp: sftp.close(); if client: client.close().  When        *)
(* sftp.close() raises, client.close() is skipped and the exception        *)
(* replaces the return value.                                              *)
UploadFinally ==
  /\ pc = "upload_finally"
  /\ \E sftpCloseOk \in (IF run.sftp THEN BOOLEAN ELSE {TRUE}) :
       IF ~sftpCloseOk
       THEN /\ run' = [run EXCEPT !.upload = "raised", !.exc = "SftpCloseError",
                                  !.client = "", !.sftp = FALSE]
            /\ pc' = "except"
            /\ UNCHANGED <<sessions, sftps>>
       ELSE /\ sftps' = sftps \ {SessionId("upload")}
            /\ sessions' = IF run.client # ""
                           THEN CloseClient(sessions, SessionId(run.client))
                           ELSE sessions
            /\ IF run.ret
               THEN /\ run' = [run EXCEPT !.upload = "ok", !.client = "", !.sftp = FALSE]
                    /\ pc' = "exec_connect"
               ELSE /\ run' = [run EXCEPT !.upload = "fail", !.exc = "Exception",
                                          !.client = "", !.sftp = FALSE]
                    /\ pc' = "except"
  /\ UNCHANGED <<cfg, fs, remote, queue, emitted, observer, runs>>

---------------------------------------------------------------------------
(* run_remote_script, lines 111-128, and its call at lines 155-156.        *)

ExecConnect ==
  /\ pc = "exec_connect"
  /\ GetSshClient([run EXCEPT !.stages = Append(@, "RemoteExecuting")], "exec")
  /\ pc' = IF run'.client = "exec" THEN "exec_run" ELSE "exec_finally"
  /\ UNCHANGED <<cfg, fs, remote, queue, emitted, observer, runs, sftps>>

ExitCodes == {0, 1}

(* Variant: output on stderr counts as a failure *)
ScriptResultStderrFails(exit_status, err) == exit_status = 0 /\ ~err

(* lines 120-123: the value run_remote_script returns for an exit status;  *)
(* stderr only produces a warning.                                         *)
ScriptResult(exit_status, err) == exit_status = 0

ExecRun ==
  /\ pc = "exec_run"
  /\ \/ run' = [run EXCEPT !.execs = @ + 1, !.ret = FALSE]
     \/ \E exit_status \in ExitCodes, err \in BOOLEAN :
          run' = [run EXCEPT !.execs = @ + 1, !.exit = exit_status, !.stderr = err,
                             !.ret = ScriptResult(exit_status, err)]
  /\ pc' = "exec_finally"
  /\ UNCHANGED <<cfg, fs, remote, queue, emitted, observer, runs, sessions, sftps>>

(* finally: if client: client.close(); then line 155-157: a False result   *)
(* raises, a True result goes on to atomic_move(file_path, PROCESSED).     *)
ExecFinally ==
  /\ pc = "exec_finally"
  /\ sessions' = IF run.client # ""
                 THEN CloseClient(sessions, SessionId(run.client))
                 ELSE sessions
  /\ IF run.ret
     THEN /\ run' = [run EXCEPT !.exec = "ok", !.client = "",
                                !.dest = ProcessedDir, !.inTry = TRUE,
                                !.filings = Append(@, ProcessedDir),
                                !.stages = Append(@, "Filing")]
          /\ pc' = "move"
     ELSE /\ run' = [run EXCEPT !.exec = "fail", !.client = "", !.exc = "Exception"]
          /\ pc' = "except"
  /\ UNCHANGED <<cfg, fs, remote, queue, emitted, observer, runs, sftps>>

---------------------------------------------------------------------------
(* atomic_move, lines 56-61.  The destination directories exist since      *)
(* start-up (lines 35-36), so os.makedirs changes nothing.                 *)

(* Variant: the source is moved straight to its final name *)
MoveTargetFinal(base) == base

(* line 58: the name the source is moved to first *)
MoveTarget(base) == TempDestName(base)

(* an exception inside atomic_move: caught by line 159 when the call is    *)
(* the one of line 157, left pending for the finally clause when the call  *)
(* is the one of line 161.                                                 *)
FilingRaised ==
  /\ run' = [run EXCEPT !.filingFailed = TRUE, !.exc = "OSError"]
  /\ pc' = IF run.inTry THEN "except" ELSE "finally"
  /\ UNCHANGED fs

(* Variant: the source is copied, not moved *)
MoveCopies ==
  /\ pc = "move"
  /\ LET src == fs[WatchDir][run.file_name]
     IN  \E ok \in (IF src = Absent THEN {FALSE} ELSE BOOLEAN) :
           IF ok
           THEN /\ fs' = [fs EXCEPT ![run.dest][MoveTarget(run.file_name)] = src]
                /\ pc' = "rename"
                /\ UNCHANGED run
           ELSE FilingRaised
  /\ UNCHANGED <<cfg, remote, queue, emitted, observer, runs, sessions, sftps>>

(* line 60: shutil.move(src, temp_dest) *)
Move ==
  /\ pc = "move"
  /\ LET src == fs[WatchDir][run.file_name]
     IN  \E ok \in (IF src = Absent THEN {FALSE} ELSE BOOLEAN) :
           IF ok
           THEN /\ fs' = [fs EXCEPT ![WatchDir][run.file_name] = Absent,
                                    ![run.dest][MoveTarget(run.file_name)] = src]
                /\ pc' = "rename"
                /\ UNCHANGED run
           ELSE FilingRaised
  /\ UNCHANGED <<cfg, remote, queue, emitted, observer, runs, sessions, sftps>>

(* line 61: os.rename(temp_dest, final_dest), replacing final_dest *)
Rename ==
  /\ pc = "rename"
  /\ \E ok \in BOOLEAN :
       IF ok
       THEN /\ fs' = [fs EXCEPT ![run.dest][MoveTarget(run.file_name)] = Absent,
                                ![run.dest][run.file_name] =
                                   fs[run.dest][MoveTarget(run.file_name)]]
            /\ pc' = "finally"
            /\ UNCHANGED run
       ELSE FilingRaised
  /\ UNCHANGED <<cfg, remote, queue, emitted, observer, runs, sessions, sftps>>

(* line 161: where the except clause files the original *)
ExceptDest == FailedDir

(* lines 159-161: the except clause logs the error and calls atomic_move   *)
(* for the failed directory.                                               *)
Except ==
  /\ pc = "except"
  /\ run' = [run EXCEPT !.caught = @ + 1, !.exc = "none",
                        !.dest = ExceptDest, !.inTry = FALSE,
                        !.filings = Append(@, ExceptDest),
                        !.stages = Append(@, "Filing")]
  /\ pc' = "move"
  /\ UNCHANGED <<cfg, fs, remote, queue, emitted, observer, runs, sessions, sftps>>

(* lines 162-164: reading temp_path when it was never assigned raises      *)
(* UnboundLocalError; os.remove may raise; otherwise a pending exception   *)
(* of the except clause goes on to the caller.                             *)
Finally ==
  /\ pc = "finally"
  /\ IF run.temp_path = Unbound
     THEN /\ run' = [run EXCEPT !.escaped = "UnboundLocalError", !.exc = "none"]
          /\ UNCHANGED fs
     ELSE IF fs[TempDir][run.temp_path] # Absent
     THEN \E ok \in BOOLEAN :
            IF ok
            THEN /\ fs' = [fs EXCEPT ![TempDir][run.temp_path] = Absent]
                 /\ run' = [run EXCEPT !.escaped = run.exc, !.exc = "none"]
            ELSE /\ run' = [run EXCEPT !.escaped = "OSError", !.exc = "none"]
                 /\ UNCHANGED fs
     ELSE /\ run' = [run EXCEPT !.escaped = run.exc, !.exc = "none"]
          /\ UNCHANGED fs
  /\ pc' = "ended"
  /\ UNCHANGED <<cfg, remote, queue, emitted, observer, runs, sessions, sftps>>

(* on_created returns to the observer thread's dispatch loop; an exception *)
(* that escaped the handler ends that thread (main, lines 167-178, keeps   *)
(* sleeping and starts no other).                                          *)
Return ==
  /\ pc = "ended"
  /\ pc' = "idle"
  /\ run' = NoRun
  /\ observer' = IF run.escaped # "none" THEN "dead" ELSE observer
  /\ UNCHANGED <<cfg, fs, remote, queue, emitted, runs, sessions, sftps>>

Next ==
  \/ Produce \/ OnCreated \/ Enrich \/ Preflight \/ PreflightReturn
  \/ UploadConnect \/ UploadPut \/ UploadFinally
  \/ ExecConnect \/ ExecRun \/ ExecFinally
  \/ Move \/ Rename \/ Except \/ Finally \/ Return


Spec == Init /\ [][Next]_vars

---------------------------------------------------------------------------
(* Vocabulary of the properties.                                           *)

RunEnded == pc = "ended"

(* the run's original file, under its final name in directory d *)
FiledIn(d) ==
  /\ run.fid # 0
  /\ fs[d][run.file_name].kind = "file"
  /\ ~fs[d][run.file_name].art
  /\ fs[d][run.file_name].id = run.fid

(* the run's original file, under any name in directory d *)
PresentIn(d) ==
  /\ run.fid # 0
  /\ \E n \in AllNames : ~fs[d][n].art /\ fs[d][n].id = run.fid

DestDirs == {ProcessedDir, FailedDir}

AllStagesOk ==
  /\ run.enrich = "ok"
  /\ run.preflight = "ok"
  /\ run.upload = "ok"
  /\ run.exit = 0

NoCredential == ~cfg.keyPath /\ ~cfg.password

C2_ArtifactRemoved ==
  /\ \A d \in DestDirs, n \in AllNames : ~fs[d][n].art
  /\ RunEnded => \A n \in AllNames : fs[TempDir][n] = Absent

(* C3: in a run whose probe returned False, get_ssh_client is never        *)
(* called, no session is open, there is no put and no remote command,      *)
(* nothing of this run is in the remote upload directory, the only filing  *)
(* is the one into failed, and the run ends with the original filed there  *)
(* (given that atomic_move itself did not raise).                          *)
C3_ProbeFailedNoSession ==
  run.preflight = "fail" =>
    /\ run.sshCalls = 0
    /\ run.connects = 0
    /\ run.puts = 0
    /\ run.execs = 0
    /\ \A sid \in sessions \cup sftps : sid.run # runs
    /\ \A f \in remote : f.data.id # runs
    /\ run.filings \in {<<>>, <<FailedDir>>}
    /\ ~PresentIn(ProcessedDir)
    /\ RunEnded => /\ run.filings = <<FailedDir>>
                   /\ ~run.filingFailed => FiledIn(FailedDir)

C3_Witness ==
  /\ RunEnded
  /\ run.preflight = "fail"
  /\ FiledIn(FailedDir)
  /\ remote = {}

(* C4: the original is filed into processed if and only if enrichment, the *)
(* probe and the upload succeeded and the exit code was 0, and into failed *)
(* in every other case (the destination is reached when atomic_move itself *)
(* does not raise); stderr plays no part.                                  *)
C4_OutcomeRule ==
  /\ PresentIn(ProcessedDir) => AllStagesOk
  /\ (RunEnded /\ ~AllStagesOk) => run.filings = <<FailedDir>>
  /\ (RunEnded /\ ~run.filingFailed) =>
       /\ FiledIn(ProcessedDir) <=> AllStagesOk
       /\ FiledIn(FailedDir) <=> ~AllStagesOk

C4_Witness ==
  /\ RunEnded
  /\ run.exit = 0
  /\ run.stderr
  /\ FiledIn(ProcessedDir)

(* C5: no error escapes on_created, so the observer thread keeps           *)
(* dispatching events.                                                     *)
C5_NoErrorEscapes ==
  /\ run.escaped = "none"
  /\ observer = "running"

(* C6: atomic_move is started exactly once per run: at most once at any    *)
(* time, and once when the run has ended.                                  *)
C6_FilingExactlyOnce ==
  /\ Len(run.filings) <= 1
  /\ RunEnded => Len(run.filings) = 1

(* C7: the original enters a destination directory only under the hidden   *)
(* name .<basename>.tmp, a final name in a destination directory changes   *)
(* only by the rename of that hidden name in the same directory, and       *)
(* between the move and the rename the final name does not hold the file.  *)
C7_HiddenThenRename ==
  [][\A d \in DestDirs, n \in BaseNames :
       LET hidden == TempDestName(n)
       IN  /\ fs'[d][n] # fs[d][n] =>
                /\ pc = "rename"
                /\ d = run.dest
                /\ n = run.file_name
                /\ fs[d][hidden] # Absent
                /\ fs'[d][n] = fs[d][hidden]
                /\ fs'[d][hidden] = Absent
           /\ (fs'[d][hidden] # fs[d][hidden] /\ fs'[d][hidden] # Absent) =>
                /\ pc = "move"
                /\ fs'[d][hidden] = fs[WatchDir][n]
                /\ fs'[WatchDir][n] = Absent
                /\ fs'[d][n] = fs[d][n]
           /\ (pc = "rename" /\ d = run.dest /\ n = run.file_name) =>
                fs[d][n].id # fs[d][hidden].id
    ]_vars

(* the rename raised: the file stays under the hidden name *)
C7_Witness ==
  /\ RunEnded
  /\ run.filingFailed
  /\ \E d \in DestDirs :
       /\ fs[d][TempDestName(run.file_name)].id = run.fid
       /\ fs[d][run.file_name] = Absent
  /\ run.fid # 0

(* C8: every open session belongs to the operation that is running: none   *)
(* is open outside upload_file_via_scp and run_remote_script.              *)
C8_SessionsClosed ==
  /\ sessions \subseteq
       (IF pc \in {"upload_put", "upload_finally"} THEN {SessionId("upload")}
        ELSE IF pc \in {"exec_run", "exec_finally"} THEN {SessionId("exec")}
        ELSE {})
  /\ sftps \subseteq sessions

(* C9: the decoders tried are a prefix of Ed25519, ECDSA, RSA; a decoder   *)
(* is tried only after all earlier ones raised SSHException; the key       *)
(* returned is that of the last decoder tried; the unloadable-key error    *)
(* comes only after all three were tried and failed.                       *)
C9_DecoderOrder ==
  (cfg.keyPath /\ run.sshCalls > 0) =>
    LET t == run.keyTried
    IN  /\ Len(t) <= Len(Decoders)
        /\ \A i \in 1..Len(t) : t[i] = Decoders[i]
        /\ \A i \in 1..(Len(t) - 1) : cfg.keyFile[i] = "SSHException"
        /\ run.key # "" =>
             /\ Len(t) >= 1
             /\ run.key = Decoders[Len(t)]
             /\ cfg.keyFile[Len(t)] = "key"
        /\ run.sshError = "UnloadableKey" =>
             /\ t = Decoders
             /\ \A i \in 1..Len(Decoders) : cfg.keyFile[i] = "SSHException"
        /\ (cfg.keyExists /\ Len(t) < Len(Decoders)) =>
             /\ Len(t) >= 1
             /\ cfg.keyFile[Len(t)] # "SSHException"

C9_Witness ==
  /\ run.sshError = "UnloadableKey"
  /\ run.keyTried = Decoders

(* C10: with neither key path nor password, get_ssh_client raises the      *)
(* no-credential error without any connect, no session is ever open, and   *)
(* the run files the original into failed (reached when atomic_move itself *)
(* does not raise).                                                        *)
C10_NoCredentialFails ==
  NoCredential =>
    /\ run.connects = 0
    /\ run.offered = <<>>
    /\ sessions = {}
    /\ run.sshCalls <= 1
    /\ run.sshCalls = 1 => run.sshError = "ValueError"
    /\ run.puts = 0 /\ run.execs = 0
    /\ run.filings \in {<<>>, <<FailedDir>>}
    /\ RunEnded => /\ run.filings = <<FailedDir>>
                   /\ ~run.filingFailed => FiledIn(FailedDir)

C10_Witness ==
  /\ NoCredential
  /\ RunEnded
  /\ run.sshError = "ValueError"
  /\ FiledIn(FailedDir)

(* C11: every connect offers exactly one credential. With a key path      *)
(* configured it is the key, also when a password is configured too; when  *)
(* loading the key fails no connect is made at all (no fall-back to the    *)
(* password). The password is offered only when no key path is configured. *)
C11_OneCredential ==
  /\ Len(run.offered) = run.connects
  /\ \A i \in 1..Len(run.offered) :
       /\ run.offered[i] \in {"pkey", "password"}
       /\ cfg.keyPath => run.offered[i] = "pkey" /\ run.key # ""
       /\ run.offered[i] = "password" => ~cfg.keyPath /\ cfg.password
  /\ (cfg.keyPath /\ run.sshCalls > 0 /\ run.key = "") =>
       /\ run.connects = 0
       /\ run.offered = <<>>
       /\ run.sshError \in {"FileNotFoundError", "UnloadableKey", "OSError"}

C11_Witness ==
  /\ cfg.keyPath /\ cfg.password
  /\ run.offered = <<"pkey", "pkey">>
  /\ run.execs = 1

(* C12: a created event for a directory, or for a file whose name does    *)
(* not end in exactly ".md" (case-sensitive), starts no run: the handler   *)
(* stays idle, no run is counted, and nothing in the local directories,    *)
(* the remote directory or the open sessions changes; such an entry stays  *)
(* in the watch directory at every later step too.                         *)
C12_NotMd(n) ==
  \/ Len(n) < 3
  \/ n[Len(n) - 2] # "."
  \/ n[Len(n) - 1] # "m"
  \/ n[Len(n)] # "d"

C12_IgnoredEventStartsNothing ==
  [][/\ (/\ queue # <<>>
         /\ queue' = Tail(queue)
         /\ (Head(queue).is_directory \/ C12_NotMd(Head(queue).src_path)))
        => /\ pc = "idle" /\ pc' = "idle"
           /\ run' = NoRun
           /\ UNCHANGED <<runs, fs, remote, sessions, sftps>>
      /\ \A n \in Names :
           (fs[WatchDir][n].kind = "dir"
              \/ (fs[WatchDir][n].kind = "file" /\ C12_NotMd(n)))
           => fs'[WatchDir][n] = fs[WatchDir][n]]_vars

C12_Witness ==
  /\ emitted = 2
  /\ queue = <<>>
  /\ pc = "idle"
  /\ runs = 0
  /\ fs[WatchDir][UpperName].kind = "file"
  /\ fs[WatchDir][MdName].kind = "dir"

(* C13: preflight_check returns True only when the probe connection was   *)
(* made and False when making it raised; what the handler then sees is a   *)
(* return value, never the socket's exception; and the probe socket is     *)
(* closed before the function returns: it is open in no later stage.       *)
C13_ProbeReturnsAndCloses ==
  /\ run.preflight = "ok" => run.probe = "closed"
  /\ run.preflight = "fail" => run.probe \in ProbeOutcomes \ {"connected"}
  /\ run.probe = "open" => pc = "preflight_return" /\ run.preflight = "none"
  /\ (run.probe # "none" /\ pc # "preflight_return") =>
       run.preflight \in {"ok", "fail"}
  /\ (run.preflight = "fail" /\ pc = "except" /\ run.filings = <<>>) =>
       run.exc = "Exception"
  /\ (run.preflight = "ok" /\ pc = "upload_connect") => run.exc = "none"

C13_Witness ==
  /\ run.preflight = "ok"
  /\ run.probe = "closed"
  /\ pc = "upload_put"

(* C14: within one run the stages occur only in the order Enriching,      *)
(* Preflighting, Uploading, RemoteExecuting, Filing, each at most once;    *)
(* the upload starts only after the probe returned True and the remote     *)
(* command only after the upload succeeded.                                *)
C14_StageRank(st) ==
  CASE st = "Detected" -> 0
    [] st = "Enriching" -> 1
    [] st = "Preflighting" -> 2
    [] st = "Uploading" -> 3
    [] st = "RemoteExecuting" -> 4
    [] st = "Filing" -> 5

C14_Gates ==
  /\ \A i \in 1..Len(run.stages) :
       /\ run.stages[i] = "Uploading" => run.preflight = "ok"
       /\ run.stages[i] = "RemoteExecuting" => run.upload = "ok"
  /\ \A i, j \in 1..Len(run.stages) :
       (i < j /\ run.stages[j] # "Filing") =>
         C14_StageRank(run.stages[i]) < C14_StageRank(run.stages[j])

C14_StagesInOrderOnce ==
  /\ C14_Gates
  /\ \A i, j \in 1..Len(run.stages) :
       i < j => C14_StageRank(run.stages[i]) < C14_StageRank(run.stages[j])

(* C15: the removal of the artifact comes after the filing on every path, *)
(* and when enrichment failed before any artifact was created (the source  *)
(* could not be read, the temporary file could not be created) it finds    *)
(* nothing to remove and completes without raising.                        *)
C15_CleanupToleratesAbsence ==
  /\ pc \in {"finally", "ended"} => Len(run.filings) >= 1
  /\ (RunEnded /\ run.enrich \in {"readfail", "createfail"}) =>
       /\ \A n \in AllNames : fs[TempDir][n] = Absent
       /\ run.escaped # "UnboundLocalError"

(* C16 as stated: in a run whose probe failed no enriched artifact was     *)
(* ever created.                                                           *)
C16_ProbeFailedNoArtifact ==
  run.preflight = "fail" =>
    /\ run.enrich = "none"
    /\ run.temp_path = Unbound
    /\ fs[TempDir][ArtName(runs)] = Absent

(* C16 amended: the probe is attempted only after the enriched artifact    *)
(* has been written; in a run whose probe failed the artifact, front       *)
(* matter followed by the original content, is in the temporary directory  *)
(* until the cleanup at the end of the run, and it is never uploaded.      *)
C16_ArtifactBeforeProbe ==
  /\ run.probe # "none" => run.enrich = "ok" /\ run.temp_path = ArtName(runs)
  /\ (run.preflight = "fail" /\ ~RunEnded) =>
       fs[TempDir][ArtName(runs)] =
         [kind |-> "file", art |-> TRUE, id |-> runs,
          fm |-> <<FrontMatter(run.file_name, run.date)>>,
          body |-> run.fid]
  /\ run.preflight = "fail" =>
       /\ run.puts = 0
       /\ \A f \in remote : f.data.id # runs

C16_Witness ==
  /\ run.preflight = "fail"
  /\ pc = "finally"
  /\ fs[TempDir][ArtName(runs)].art
  /\ fs[TempDir][ArtName(runs)].fm # <<>>

(* C17: at most one file is in flight: an event is taken from the queue   *)
(* only when no run is in progress, a run is started only by the idle      *)
(* handler, and from its start to its return a run works on one and the    *)
(* same file.                                                              *)
C17_OneRunAtATime ==
  [][/\ (queue # <<>> /\ queue' = Tail(queue)) => (pc = "idle" /\ run = NoRun)
     /\ runs' # runs => (pc = "idle" /\ pc' = "enrich" /\ runs' = runs + 1)
     /\ (pc # "idle" /\ pc' # "idle") =>
          /\ run'.file_name = run.file_name
          /\ run'.fid = run.fid
          /\ runs' = runs]_vars

C17_Witness ==
  /\ pc = "exec_run"
  /\ runs = 1
  /\ queue # <<>>

(* C18: from its detection until the filing starts the original is at its *)
(* watch path with the content the producer gave it; front matter exists   *)
(* only in the temporary artifact; and the file found in processed or      *)
(* failed is the original, content unchanged, without front matter.        *)
C18_OriginalUntouched ==
  /\ (pc # "idle" /\ run.filings = <<>>) =>
       fs[WatchDir][run.file_name] = ProducerFile(run.fid)
  /\ \A d \in Dirs \ {TempDir}, n \in AllNames :
       fs[d][n].kind = "file" =>
         /\ ~fs[d][n].art
         /\ fs[d][n].fm = <<>>
         /\ fs[d][n].body = fs[d][n].id
  /\ \A d \in DestDirs : FiledIn(d) => fs[d][run.file_name] = ProducerFile(run.fid)

C18_Witness ==
  /\ RunEnded
  /\ FiledIn(ProcessedDir)
  /\ fs[ProcessedDir][run.file_name].fm = <<>>
  /\ \E f \in remote : f.data.id = runs /\ f.data.fm # <<>>

(* C19: of the sessions a run opens at most one is open at any time; the  *)
(* upload and the remote command each connect anew; and the upload's       *)
(* session and its SFTP channel are closed before the remote command's     *)
(* session is opened.                                                      *)
C19_OneSessionPerRun ==
  LET mine == {sid \in sessions : sid.run = runs}
  IN  /\ Cardinality(mine) <= 1
      /\ pc \in {"exec_connect", "exec_run", "exec_finally"} =>
           /\ SessionId("upload") \notin sessions
           /\ SessionId("upload") \notin sftps
      /\ SessionId("exec") \in sessions =>
           /\ run.upload = "ok"
           /\ run.connects = 2
           /\ run.client = "exec"
      /\ \A sid \in sftps : sid.op = "upload"

C19_Witness ==
  /\ pc = "exec_run"
  /\ run.puts = 1
  /\ SessionId("exec") \in sessions
  /\ SessionId("upload") \notin sessions

(* C20: over any sequence of runs a document filed under its final name   *)
(* in processed or failed is never removed or replaced by a later filing:  *)
(* once there, it is there unchanged in every later state.                 *)
C20_FiledDocumentKept ==
  [][\A d \in DestDirs, n \in Names :
       fs[d][n].kind = "file" => fs'[d][n] = fs[d][n]]_vars

====
